---- MODULE Spec2Model ----
(***************************************************************************)
(* Configuration resolution of ripgrep-all (src/src/config.rs): the        *)
(* byte-size scalar parser, the JSON deep merge, the config-file and       *)
(* environment readers, parse_args and split_args.                         *)
(*                                                                         *)
(* Text is a sequence of one-character strings, so that starts_with,       *)
(* trim_end_matches and the integer parsers are computed character by      *)
(* character.  A JSON value is a tagged record:                            *)
(*   [t |-> "null"], [t |-> "bool", b], [t |-> "num", n], [t |-> "str", s],*)
(*   [t |-> "arr", a] (a sequence), [t |-> "obj", o] (a function from key  *)
(*   strings to values).                                                   *)
(***************************************************************************)
EXTENDS Integers, Sequences, FiniteSets, TLC

VARIABLES
    fs,          \* the filesystem: config directory, config/schema/override files
    env,         \* the value of the RGA_CONFIG environment variable
    cell,        \* PREPROC_ENV_CONFIG, the process-wide OnceCell
    alive,       \* FALSE once clap has terminated the process
    calls,       \* number of parse_args calls made by this process
    last,        \* what the last parse_args call did and returned
    argv,        \* split_args: the raw process argument vector
    split,       \* split_args: its outcome
    blobIn,      \* CacheMaxBlobLen::from_str: the input text
    blobOut,     \* CacheMaxBlobLen::from_str: its result
    docs,        \* json_merge: the documents A, B, C
    merged,      \* json_merge: the results of the two groupings
    procs        \* concurrent first runs: each process's position in read_config_file

vars == <<fs, env, cell, alive, calls, last, argv, split, blobIn, blobOut, docs, merged, procs>>

Idle == [st |-> "idle"]

-----------------------------------------------------------------------------
(* Options and JSON values *)

None == [some |-> FALSE]
Some(x) == [some |-> TRUE, v |-> x]

Null == [t |-> "null"]
Bool(b) == [t |-> "bool", b |-> b]
Num(n) == [t |-> "num", n |-> n]
Str(s) == [t |-> "str", s |-> s]
Arr(a) == [t |-> "arr", a |-> a]
Obj(o) == [t |-> "obj", o |-> o]

EmptyObj == Obj(<<>>)

IsObj(v) == v.t = "obj"
Keys(v) == DOMAIN v.o
Has(v, k) == IsObj(v) /\ k \in Keys(v)

\* An object with one key.
Single(k, v) == Obj([x \in {k} |-> v])

\* A mutant of json_merge: a key of b that a does not hold is not inserted
\* (get_mut instead of entry().or_insert()).
RECURSIVE json_merge_no_insert(_, _)
json_merge_no_insert(a, b) ==
    IF IsObj(a) /\ IsObj(b)
    THEN Obj([k \in Keys(a) |->
                IF k \in Keys(b) THEN json_merge_no_insert(a.o[k], b.o[k]) ELSE a.o[k]])
    ELSE b

\* A mutant of json_merge: a key both objects hold takes b's value without
\* recursion (insert instead of a recursive call on the entry).
json_merge_shallow(a, b) ==
    IF IsObj(a) /\ IsObj(b)
    THEN Obj([k \in Keys(a) \cup Keys(b) |-> IF k \in Keys(b) THEN b.o[k] ELSE a.o[k]])
    ELSE b

\* json_merge(a, b): the value `a` holds after the call.
\* Two objects merge key by key: for each (k, v) of b, the entry of a is
\* created as null when missing and merged with v.  In every other case a
\* becomes a copy of b.
RECURSIVE json_merge(_, _)
json_merge(a, b) ==
    IF IsObj(a) /\ IsObj(b)
    THEN Obj([k \in Keys(a) \cup Keys(b) |->
                IF k \in Keys(b)
                THEN json_merge(IF k \in Keys(a) THEN a.o[k] ELSE Null, b.o[k])
                ELSE a.o[k]])
    ELSE b

-----------------------------------------------------------------------------
(* Documents for the merge checks *)

\* Largest number used as a scalar of a merge document.
MaxNum == 1

Scalars == {Null, Arr(<<Num(1)>>)} \cup {Num(n) : n \in 1..MaxNum}

\* Every object whose keys are among K and whose values are in V.
ObjectsOver(K, V) == {Obj(f) : f \in UNION {[S -> V] : S \in SUBSET K}}

InnerVals == Scalars \cup ObjectsOver({"p", "q"}, Scalars)

MergeDocs == Scalars \cup ObjectsOver({"x"}, InnerVals)

\* At some key path present in all three documents, a and c hold objects
\* and b holds a non-object.
RECURSIVE Shadowed(_, _, _)
Shadowed(a, b, c) ==
    /\ IsObj(a)
    /\ IsObj(c)
    /\ IF IsObj(b)
       THEN \E k \in (Keys(a) \cap Keys(b)) \cap Keys(c) :
                Shadowed(a.o[k], b.o[k], c.o[k])
       ELSE TRUE

-----------------------------------------------------------------------------
(* The merge specification: A, B and C are drawn, then merged in the two
   groupings. *)

NoResolver ==
    /\ fs = Idle /\ env = None /\ cell = None /\ alive = TRUE /\ calls = 0
    /\ last = Idle

NoSplit == argv = <<>> /\ split = Idle

NoBlob == blobIn = <<>> /\ blobOut = Idle

NoMerge == docs = Idle /\ merged = Idle

NoRace == procs = <<>>

InitMerge ==
    /\ NoResolver /\ NoSplit /\ NoBlob /\ NoRace
    /\ docs \in [A : MergeDocs, B : MergeDocs, C : MergeDocs]
    /\ merged = [l |-> None, r |-> None, ab |-> None]

\* json_merge(&mut A, &B); json_merge(&mut A, &C)
MergeLeft ==
    /\ ~merged.l.some
    /\ merged' = [merged EXCEPT !.l = Some(json_merge(json_merge(docs.A, docs.B), docs.C))]
    /\ UNCHANGED <<fs, env, cell, alive, calls, last, argv, split, blobIn, blobOut, docs, procs>>

\* json_merge(&mut B, &C); json_merge(&mut A, &B)
MergeRight ==
    /\ ~merged.r.some
    /\ merged' = [merged EXCEPT !.r = Some(json_merge(docs.A, json_merge(docs.B, docs.C)))]
    /\ UNCHANGED <<fs, env, cell, alive, calls, last, argv, split, blobIn, blobOut, docs, procs>>

\* json_merge(&mut A, &B)
MergeOnce ==
    /\ ~merged.ab.some
    /\ merged' = [merged EXCEPT !.ab = Some(json_merge(docs.A, docs.B))]
    /\ UNCHANGED <<fs, env, cell, alive, calls, last, argv, split, blobIn, blobOut, docs, procs>>

NextMerge == MergeLeft \/ MergeRight \/ MergeOnce

SpecMerge == InitMerge /\ [][NextMerge]_vars

MergedBoth == merged.l.some /\ merged.r.some

\* C8 (as stated): deep merge is associative for all documents A, B, C.
C8_MergeAssociative == MergedBoth => merged.l.v = merged.r.v

\* C8 (amended): deep merge is associative for all documents A, B, C unless,
\* at some key path present in all three, A and C hold objects and B holds a
\* non-object value.
C8_MergeAssociativeUnshadowed ==
    (MergedBoth /\ ~Shadowed(docs.A, docs.B, docs.C)) => merged.l.v = merged.r.v

\* Three objects sharing a key whose values are objects themselves have been
\* merged in both groupings.
C8_Witness ==
    /\ MergedBoth
    /\ ~Shadowed(docs.A, docs.B, docs.C)
    /\ \E k \in {"x"} :
         /\ Has(docs.A, k) /\ Has(docs.B, k) /\ Has(docs.C, k)
         /\ IsObj(docs.A.o[k]) /\ IsObj(docs.B.o[k]) /\ IsObj(docs.C.o[k])
         /\ Keys(docs.A.o[k]) # Keys(docs.C.o[k])
         /\ Keys(docs.B.o[k]) # {}

-----------------------------------------------------------------------------
(* Text and integer parsing *)

Digits == {"0", "1", "2", "3", "4", "5", "6", "7", "8", "9"}

DigitVal(c) ==
    CASE c = "0" -> 0 [] c = "1" -> 1 [] c = "2" -> 2 [] c = "3" -> 3 [] c = "4" -> 4
      [] c = "5" -> 5 [] c = "6" -> 6 [] c = "7" -> 7 [] c = "8" -> 8 [] c = "9" -> 9

\* The largest integer of the model's arithmetic.  Inputs are drawn so that
\* every value stays below it; a usize is wider (2^64 - 1 on a 64-bit
\* target), so no drawn input overflows a usize.
IntMax == 2147483646 + 1

Ok(x) == [ok |-> TRUE, v |-> x]
Err(m) == [ok |-> FALSE, err |-> m]

AllDigits(s) == \A i \in 1..Len(s) : s[i] \in Digits

RECURSIVE DecimalValue(_)
DecimalValue(s) ==
    IF s = <<>> THEN 0
    ELSE 10 * DecimalValue(SubSeq(s, 1, Len(s) - 1)) + DigitVal(s[Len(s)])

\* str::starts_with
StartsWith(s, p) == Len(s) >= Len(p) /\ SubSeq(s, 1, Len(p)) = p

\* str::trim_end_matches(char): every trailing repetition of c is removed.
RECURSIVE TrimEndMatches(_, _)
TrimEndMatches(s, c) ==
    IF s # <<>> /\ s[Len(s)] = c
    THEN TrimEndMatches(SubSeq(s, 1, Len(s) - 1), c)
    ELSE s

\* usize::from_str: an optional '+', then one or more decimal digits.
UsizeFromStr(s) ==
    LET body == IF s # <<>> /\ s[1] = "+" THEN Tail(s) ELSE s
    IN  IF body = <<>> \/ ~AllDigits(body)
        THEN Err("invalid digit")
        ELSE Ok(DecimalValue(body))

\* i32::from_str: an optional '+' or '-', then one or more decimal digits.
I32FromStr(s) ==
    LET signed == s # <<>> /\ s[1] \in {"+", "-"}
        body == IF signed THEN Tail(s) ELSE s
    IN  IF body = <<>> \/ ~AllDigits(body)
        THEN Err("invalid digit")
        ELSE Ok(IF signed /\ s[1] = "-" THEN 0 - DecimalValue(body) ELSE DecimalValue(body))

UnitSuffixes == {"k", "M", "G"}

UnitFactor(c) == CASE c = "k" -> 1000 [] c = "M" -> 1000000 [] c = "G" -> 1000000000

\* CacheMaxBlobLen::from_str
CacheMaxBlobLen_from_str(s) ==
    IF s = <<>>
    THEN Err("empty byte input")
    ELSE LET suffix == s[Len(s)]
         IN  IF suffix \in UnitSuffixes
             THEN LET e == UsizeFromStr(TrimEndMatches(s, suffix))
                  IN  IF e.ok THEN Ok(e.v * UnitFactor(suffix))
                      ELSE Err("Could not parse int")
             ELSE LET e == UsizeFromStr(s)
                  IN  IF e.ok THEN e ELSE Err("Could not parse int")

-----------------------------------------------------------------------------
(* The byte-size specification: a text is drawn and parsed. *)

\* Longest text drawn as an input of CacheMaxBlobLen::from_str.
MaxBlobTextLen == 3

BlobChars == {"0", "1", "2", "k", "M", "G", "+", "x"}

TextsUpTo(chars, n) == UNION {[1..m -> chars] : m \in 0..n}

\* The number a text denotes stays within the model's arithmetic.
WithinModel(s) ==
    \/ s = <<>>
    \/ s[Len(s)] \notin UnitSuffixes
    \/ LET e == UsizeFromStr(TrimEndMatches(s, s[Len(s)]))
       IN  e.ok => e.v <= IntMax \div UnitFactor(s[Len(s)])

BlobTexts == {s \in TextsUpTo(BlobChars, MaxBlobTextLen) : WithinModel(s)}

InitBlob ==
    /\ NoResolver /\ NoSplit /\ NoMerge /\ NoRace
    /\ blobIn \in BlobTexts
    /\ blobOut = Idle

ParseBlob ==
    /\ blobOut = Idle
    /\ blobOut' = [st |-> "done", res |-> CacheMaxBlobLen_from_str(blobIn)]
    /\ UNCHANGED <<fs, env, cell, alive, calls, last, argv, split, blobIn, docs, merged, procs>>

NextBlob == ParseBlob

SpecBlob == InitBlob /\ [][NextBlob]_vars

\* The parse the byte-size contract describes: only the last character is the
\* unit, and the text before it must be an unsigned integer.
ParseAsSpecified(s) ==
    IF s = <<>>
    THEN [ok |-> FALSE]
    ELSE LET suffix == s[Len(s)]
             e == UsizeFromStr(IF suffix \in UnitSuffixes
                               THEN SubSeq(s, 1, Len(s) - 1) ELSE s)
         IN  IF ~e.ok THEN [ok |-> FALSE]
             ELSE IF suffix \in UnitSuffixes
                  THEN [ok |-> TRUE, v |-> e.v * UnitFactor(suffix)]
                  ELSE [ok |-> TRUE, v |-> e.v]

\* C5: for every text s, CacheMaxBlobLen::from_str fails on the empty text,
\* takes a last character k, M or G as the unit of the text before it (which
\* must be an unsigned integer), and otherwise parses s as an unsigned integer.
C5_FromStrAsSpecified ==
    blobOut # Idle =>
        LET want == ParseAsSpecified(blobIn)
        IN  /\ blobOut.res.ok = want.ok
            /\ want.ok => blobOut.res.v = want.v

-----------------------------------------------------------------------------
(* RgaConfig: defaults, serialization (serde Serialize) and deserialization
   (serde Deserialize).  A typed config is a record; an Option is None or
   Some(x); a string is a Text. *)

DefaultMaxBlobLen == 2000000
DefaultCompressionLevel == 12
DefaultMaxArchiveRecursion == 5

\* CachePath::default(): the platform's cache directory of the application.
DefaultCachePath == <<"/", "k">>

\* CacheConfig::default()
DefaultCacheConfig ==
    [disabled |-> FALSE,
     max_blob_len |-> DefaultMaxBlobLen,
     compression_level |-> DefaultCompressionLevel,
     path |-> DefaultCachePath]

\* RgaConfig::default()
DefaultRgaConfig ==
    [accurate |-> FALSE,
     adapters |-> <<>>,
     cache |-> DefaultCacheConfig,
     max_archive_recursion |-> DefaultMaxArchiveRecursion,
     no_prefix_filenames |-> FALSE,
     custom_adapters |-> None,
     config_file_path |-> None,
     fzf_path |-> None,
     list_adapters |-> FALSE,
     print_config_schema |-> FALSE,
     rg_help |-> FALSE,
     rg_version |-> FALSE,
     zip_extensions |-> None,
     ffmpeg_extensions |-> None,
     postproc_binary_marker |-> None,
     postproc_page_prefix |-> None,
     postproc_page_include_empty |-> None]

\* is_default
is_default(t, default) == t = default

StrList(xs) == Arr([i \in 1..Len(xs) |-> Str(xs[i])])

OptJson(o, ToJson(_)) == IF o.some THEN ToJson(o.v) ELSE Null

\* A user-defined adapter descriptor is kept as the JSON value given for it.
AdapterList(xs) == Arr(xs)

\* The keys CacheConfig serializes: each is skipped when it holds its default.
CacheSerializedKeys(c) ==
    {k \in {"disabled", "max_blob_len", "compression_level", "path"} :
        ~is_default(c[k], DefaultCacheConfig[k])}

CacheToValue(c) ==
    Obj([k \in CacheSerializedKeys(c) |->
            CASE k = "disabled" -> Bool(c.disabled)
              [] k = "max_blob_len" -> Num(c.max_blob_len)
              [] k = "compression_level" -> Num(c.compression_level)
              [] k = "path" -> Str(c.path)])

\* Fields with skip_serializing_if = "is_default".
SkippedWhenDefault ==
    {"accurate", "adapters", "cache", "max_archive_recursion",
     "no_prefix_filenames", "custom_adapters"}

\* Fields with serde(default) only: always serialized, None as null.
AlwaysSerialized ==
    {"zip_extensions", "ffmpeg_extensions", "postproc_binary_marker",
     "postproc_page_prefix", "postproc_page_include_empty"}

\* Fields with serde(skip): never serialized, never deserialized.
CliOnly ==
    {"config_file_path", "fzf_path", "list_adapters", "print_config_schema",
     "rg_help", "rg_version"}

\* A mutant of SerializedKeys: custom_adapters loses its skip_serializing_if
\* and is written like the other optional lists.
SerializedKeysWithAdapters(c) ==
    AlwaysSerialized \cup {"custom_adapters"}
        \cup {k \in SkippedWhenDefault : ~is_default(c[k], DefaultRgaConfig[k])}

\* The keys RgaConfig serializes.
SerializedKeys(c) ==
    AlwaysSerialized
        \cup {k \in SkippedWhenDefault : ~is_default(c[k], DefaultRgaConfig[k])}

\* serde_json::to_value(&RgaConfig)
ToValue(c) ==
    Obj([k \in SerializedKeys(c) |->
            CASE k = "accurate" -> Bool(c.accurate)
              [] k = "adapters" -> StrList(c.adapters)
              [] k = "cache" -> CacheToValue(c.cache)
              [] k = "max_archive_recursion" -> Num(c.max_archive_recursion)
              [] k = "no_prefix_filenames" -> Bool(c.no_prefix_filenames)
              [] k = "custom_adapters" -> OptJson(c.custom_adapters, AdapterList)
              [] k = "zip_extensions" -> OptJson(c.zip_extensions, StrList)
              [] k = "ffmpeg_extensions" -> OptJson(c.ffmpeg_extensions, StrList)
              [] k = "postproc_binary_marker" -> OptJson(c.postproc_binary_marker, Str)
              [] k = "postproc_page_prefix" -> OptJson(c.postproc_page_prefix, Str)
              [] k = "postproc_page_include_empty" ->
                    OptJson(c.postproc_page_include_empty, Bool)])

DeBool(v) == IF v.t = "bool" THEN Ok(v.b) ELSE Err("invalid type")
DeI32(v) == IF v.t = "num" THEN Ok(v.n) ELSE Err("invalid type")
DeUsize(v) == IF v.t = "num" /\ v.n >= 0 THEN Ok(v.n) ELSE Err("invalid type")
DeString(v) == IF v.t = "str" THEN Ok(v.s) ELSE Err("invalid type")

DeStrList(v) ==
    IF v.t = "arr" /\ \A i \in 1..Len(v.a) : v.a[i].t = "str"
    THEN Ok([i \in 1..Len(v.a) |-> v.a[i].s])
    ELSE Err("invalid type")

DeAdapterList(v) == IF v.t = "arr" THEN Ok(v.a) ELSE Err("invalid type")

DeOpt(v, De(_)) ==
    IF v = Null THEN Ok(None)
    ELSE LET r == De(v) IN IF r.ok THEN Ok(Some(r.v)) ELSE r

\* serde(default): a missing key gives the field's default.
DeField(doc, k, De(_), default) == IF k \in Keys(doc) THEN De(doc.o[k]) ELSE Ok(default)

DeOptField(doc, k, De(_)) == IF k \in Keys(doc) THEN DeOpt(doc.o[k], De) ELSE Ok(None)

\* Deserialize for CacheConfig.
CacheFromValue(v) ==
    IF ~IsObj(v) THEN Err("invalid type")
    ELSE LET d == DeField(v, "disabled", DeBool, FALSE)
             m == DeField(v, "max_blob_len", DeUsize, DefaultMaxBlobLen)
             l == DeField(v, "compression_level", DeI32, DefaultCompressionLevel)
             p == DeField(v, "path", DeString, DefaultCachePath)
         IN  IF d.ok /\ m.ok /\ l.ok /\ p.ok
             THEN Ok([disabled |-> d.v, max_blob_len |-> m.v,
                      compression_level |-> l.v, path |-> p.v])
             ELSE Err("invalid type")

\* serde_json::from_value::<RgaConfig>: unknown keys are ignored, the
\* serde(skip) fields take their defaults whatever the document holds.
FromValue(doc) ==
    IF ~IsObj(doc) THEN Err("invalid type")
    ELSE LET ac == DeField(doc, "accurate", DeBool, FALSE)
             ad == DeField(doc, "adapters", DeStrList, <<>>)
             ca == DeField(doc, "cache", CacheFromValue, DefaultCacheConfig)
             ma == DeField(doc, "max_archive_recursion", DeI32, DefaultMaxArchiveRecursion)
             np == DeField(doc, "no_prefix_filenames", DeBool, FALSE)
             cu == DeOptField(doc, "custom_adapters", DeAdapterList)
             zi == DeOptField(doc, "zip_extensions", DeStrList)
             ff == DeOptField(doc, "ffmpeg_extensions", DeStrList)
             bm == DeOptField(doc, "postproc_binary_marker", DeString)
             pp == DeOptField(doc, "postproc_page_prefix", DeString)
             pe == DeOptField(doc, "postproc_page_include_empty", DeBool)
         IN  IF /\ ac.ok /\ ad.ok /\ ca.ok /\ ma.ok /\ np.ok /\ cu.ok
                /\ zi.ok /\ ff.ok /\ bm.ok /\ pp.ok /\ pe.ok
             THEN Ok([DefaultRgaConfig EXCEPT
                        !.accurate = ac.v,
                        !.adapters = ad.v,
                        !.cache = ca.v,
                        !.max_archive_recursion = ma.v,
                        !.no_prefix_filenames = np.v,
                        !.custom_adapters = cu.v,
                        !.zip_extensions = zi.v,
                        !.ffmpeg_extensions = ff.v,
                        !.postproc_binary_marker = bm.v,
                        !.postproc_page_prefix = pp.v,
                        !.postproc_page_include_empty = pe.v])
             ELSE Err("invalid type")

-----------------------------------------------------------------------------
(* The command line: clap's parse of the tool-owned arguments.  An OsString
   is [valid, text]: valid is FALSE when the argument is not valid Unicode
   (to_str() gives None). *)

Os(text) == [valid |-> TRUE, text |-> text]

RgaPrefix == <<"-", "-", "r", "g", "a", "-">>
RgPrefix == <<"-", "-", "r", "g", "-">>
LongHelp == <<"-", "-", "h", "e", "l", "p">>
ShortHelp == <<"-", "h">>
LongVersion == <<"-", "-", "v", "e", "r", "s", "i", "o", "n">>
ShortVersion == <<"-", "V">>

Flag_accurate ==
    RgaPrefix \o <<"a", "c", "c", "u", "r", "a", "t", "e">>
Flag_adapters ==
    RgaPrefix \o <<"a", "d", "a", "p", "t", "e", "r", "s">>
Flag_no_cache ==
    RgaPrefix \o <<"n", "o", "-", "c", "a", "c", "h", "e">>
Flag_cache_max_blob_len ==
    RgaPrefix \o <<"c", "a", "c", "h", "e", "-", "m", "a", "x", "-", "b", "l", "o", "b", "-", "l", "e", "n">>
Flag_cache_compression_level ==
    RgaPrefix \o <<"c", "a", "c", "h", "e", "-", "c", "o", "m", "p", "r", "e", "s", "s", "i", "o", "n", "-", "l", "e", "v", "e", "l">>
Flag_cache_path ==
    RgaPrefix \o <<"c", "a", "c", "h", "e", "-", "p", "a", "t", "h">>
Flag_max_archive_recursion ==
    RgaPrefix \o <<"m", "a", "x", "-", "a", "r", "c", "h", "i", "v", "e", "-", "r", "e", "c", "u", "r", "s", "i", "o", "n">>
Flag_no_prefix_filenames ==
    RgaPrefix \o <<"n", "o", "-", "p", "r", "e", "f", "i", "x", "-", "f", "i", "l", "e", "n", "a", "m", "e", "s">>
Flag_config_file ==
    RgaPrefix \o <<"c", "o", "n", "f", "i", "g", "-", "f", "i", "l", "e">>
Flag_fzf_path ==
    RgaPrefix \o <<"f", "z", "f", "-", "p", "a", "t", "h">>
Flag_list_adapters ==
    RgaPrefix \o <<"l", "i", "s", "t", "-", "a", "d", "a", "p", "t", "e", "r", "s">>
Flag_print_config_schema ==
    RgaPrefix \o <<"p", "r", "i", "n", "t", "-", "c", "o", "n", "f", "i", "g", "-", "s", "c", "h", "e", "m", "a">>
Flag_rg_help == RgPrefix \o <<"h", "e", "l", "p">>
Flag_rg_version == RgPrefix \o <<"v", "e", "r", "s", "i", "o", "n">>
Flag_zip_extensions ==
    RgaPrefix \o <<"z", "i", "p", "-", "e", "x", "t", "e", "n", "s", "i", "o", "n", "s">>
Flag_ffmpeg_extensions ==
    RgaPrefix \o <<"f", "f", "m", "p", "e", "g", "-", "e", "x", "t", "e", "n", "s", "i", "o", "n", "s">>
Flag_postproc_binary_marker ==
    RgaPrefix \o <<"p", "o", "s", "t", "p", "r", "o", "c", "-", "b", "i", "n", "a", "r", "y", "-", "m", "a", "r", "k", "e", "r">>
Flag_postproc_page_prefix ==
    RgaPrefix \o <<"p", "o", "s", "t", "p", "r", "o", "c", "-", "p", "a", "g", "e", "-", "p", "r", "e", "f", "i", "x">>
Flag_postproc_page_include_empty ==
    RgaPrefix \o <<"p", "o", "s", "t", "p", "r", "o", "c", "-", "p", "a", "g", "e", "-", "i", "n", "c", "l", "u", "d", "e", "-", "e", "m", "p", "t", "y">>

\* Index of the first occurrence of c in s, 0 when there is none.
FirstIndex(s, c) ==
    IF \E i \in 1..Len(s) : s[i] = c
    THEN CHOOSE i \in 1..Len(s) : s[i] = c /\ \A j \in 1..(i - 1) : s[j] # c
    ELSE 0

RECURSIVE SplitOn(_, _)
SplitOn(s, d) ==
    LET i == FirstIndex(s, d)
    IN  IF i = 0 THEN <<s>>
        ELSE <<SubSeq(s, 1, i - 1)>> \o SplitOn(SubSeq(s, i + 1, Len(s)), d)

FlagName(a) ==
    LET i == FirstIndex(a, "=") IN IF i = 0 THEN a ELSE SubSeq(a, 1, i - 1)

FlagValue(a) ==
    LET i == FirstIndex(a, "=")
    IN  IF i = 0 THEN None ELSE Some(SubSeq(a, i + 1, Len(a)))

TextTrue == <<"t", "r", "u", "e">>
TextFalse == <<"f", "a", "l", "s", "e">>

\* clap terminates the process: an unknown argument, a value that does not
\* parse, a missing or unexpected "=value", --help, --version.
ClapExit == Err("exit")

\* One argument applied to the draft.  Every value-taking flag has
\* require_equals (the space-separated value of
\* --rga-postproc-page-include-empty is not drawn); the list flags split
\* their value at ','.
ClapApply(c, a) ==
    LET n == FlagName(a)
        v == FlagValue(a)
    IN  CASE n = Flag_accurate /\ ~v.some -> Ok([c EXCEPT !.accurate = TRUE])
          [] n = Flag_adapters /\ v.some ->
                Ok([c EXCEPT !.adapters = SplitOn(v.v, ",")])
          [] n = Flag_no_cache /\ ~v.some -> Ok([c EXCEPT !.cache.disabled = TRUE])
          [] n = Flag_cache_max_blob_len /\ v.some ->
                LET r == CacheMaxBlobLen_from_str(v.v)
                IN  IF r.ok THEN Ok([c EXCEPT !.cache.max_blob_len = r.v]) ELSE ClapExit
          [] n = Flag_cache_compression_level /\ v.some ->
                LET r == I32FromStr(v.v)
                IN  IF r.ok THEN Ok([c EXCEPT !.cache.compression_level = r.v]) ELSE ClapExit
          [] n = Flag_cache_path /\ v.some -> Ok([c EXCEPT !.cache.path = v.v])
          [] n = Flag_max_archive_recursion /\ v.some ->
                LET r == I32FromStr(v.v)
                IN  IF r.ok THEN Ok([c EXCEPT !.max_archive_recursion = r.v]) ELSE ClapExit
          [] n = Flag_no_prefix_filenames /\ ~v.some ->
                Ok([c EXCEPT !.no_prefix_filenames = TRUE])
          [] n = Flag_config_file /\ v.some -> Ok([c EXCEPT !.config_file_path = Some(v.v)])
          [] n = Flag_fzf_path /\ v.some -> Ok([c EXCEPT !.fzf_path = Some(v.v)])
          [] n = Flag_list_adapters /\ ~v.some -> Ok([c EXCEPT !.list_adapters = TRUE])
          [] n = Flag_print_config_schema /\ ~v.some ->
                Ok([c EXCEPT !.print_config_schema = TRUE])
          [] n = Flag_rg_help /\ ~v.some -> Ok([c EXCEPT !.rg_help = TRUE])
          [] n = Flag_rg_version /\ ~v.some -> Ok([c EXCEPT !.rg_version = TRUE])
          [] n = Flag_zip_extensions /\ v.some ->
                Ok([c EXCEPT !.zip_extensions = Some(SplitOn(v.v, ","))])
          [] n = Flag_ffmpeg_extensions /\ v.some ->
                Ok([c EXCEPT !.ffmpeg_extensions = Some(SplitOn(v.v, ","))])
          [] n = Flag_postproc_binary_marker /\ v.some ->
                Ok([c EXCEPT !.postproc_binary_marker = Some(v.v)])
          [] n = Flag_postproc_page_prefix /\ v.some ->
                Ok([c EXCEPT !.postproc_page_prefix = Some(v.v)])
          [] n = Flag_postproc_page_include_empty /\ v.some /\ v.v \in {TextTrue, TextFalse} ->
                Ok([c EXCEPT !.postproc_page_include_empty = Some(v.v = TextTrue)])
          [] OTHER -> ClapExit

RECURSIVE ClapFold(_, _, _)
ClapFold(c, args, i) ==
    IF i > Len(args) THEN Ok(c)
    ELSE IF ~args[i].valid THEN ClapExit
    ELSE LET r == ClapApply(c, args[i].text)
         IN  IF r.ok THEN ClapFold(r.v, args, i + 1) ELSE r

\* RgaConfig::parse_from(args): the first argument is the program name; the
\* draft starts from the default_value_t values, which are the defaults.
ParseFrom(args) == ClapFold(DefaultRgaConfig, args, 2)

-----------------------------------------------------------------------------
(* The filesystem and the config-file reader.  fs is [dir, files]: whether
   the config directory exists, and the content of each file.  A content is
   absent, empty (created, nothing written), text that is no JSON, or a JSON
   document with or without comments around it. *)

\* proj.config_dir().join("config.jsonc")
ConfigPath == <<"/", "d", "/", "c">>

\* config_dir.join("config.v1.schema.json")
SchemaPath == <<"/", "d", "/", "s">>

\* A file outside the config directory, for --rga-config-file.
OtherPath == <<"/", "o">>

FilePaths == {ConfigPath, SchemaPath, OtherPath}

Absent == [kind |-> "absent"]
EmptyFile == [kind |-> "empty"]
Garbage == [kind |-> "garbage"]
Jsonc(doc, comments) == [kind |-> "jsonc", doc |-> doc, comments |-> comments]

\* serde_json::to_string_pretty(&schemars::schema_for!(RgaConfig)): a JSON
\* object none of whose keys is a field of RgaConfig.
SchemaText == Jsonc(Single("$schema", Str(<<"s">>)), FALSE)

\* include_str!("../doc/config.default.jsonc"): a commented template that
\* sets no option.
DefaultConfigTemplate == Jsonc(EmptyObj, TRUE)

\* Path::exists
Exists(fsys, path) == path \in FilePaths /\ fsys.files[path] # Absent

\* json_comments::StripComments: the comments are removed, the rest is kept.
StripComments(content) ==
    IF content.kind = "jsonc" THEN Jsonc(content.doc, FALSE) ELSE content

\* serde_json::from_str::<Value> of a text without comments.
JsonFromStr(content) ==
    IF content.kind = "jsonc" /\ ~content.comments
    THEN Ok(content.doc)
    ELSE Err("Could not parse config json")

IoFaults ==
    {"none", "mkdir", "create_schema", "write_schema", "create_config", "write_config"}

\* The first-run branch of read_config_file: create_dir_all, File::create and
\* write_all of the schema, File::create and write_all of the template.  Each
\* step can fail (fault names the step that does); File::create truncates.
write_default_config(fsys, fault) ==
    LET s1 == [fsys EXCEPT !.dir = TRUE]
        s2 == [s1 EXCEPT !.files[SchemaPath] = EmptyFile]
        s3 == [s2 EXCEPT !.files[SchemaPath] = SchemaText]
        s4 == [s3 EXCEPT !.files[ConfigPath] = EmptyFile]
        s5 == [s4 EXCEPT !.files[ConfigPath] = DefaultConfigTemplate]
    IN  CASE fault = "mkdir" -> [res |-> Err(<<"io">>), fs |-> fsys]
          [] fault = "create_schema" -> [res |-> Err(<<"io">>), fs |-> s1]
          [] fault = "write_schema" -> [res |-> Err(<<"io">>), fs |-> s2]
          [] fault = "create_config" -> [res |-> Err(<<"io">>), fs |-> s3]
          [] fault = "write_config" -> [res |-> Err(<<"io">>), fs |-> s4]
          [] OTHER -> [res |-> Ok(EmptyObj), fs |-> s5]

\* The existing-file branch: read, strip the comments, deserialize once as
\* RgaConfig for the error message, parse as a Value.
read_existing_config(fsys, config_filename) ==
    LET text == StripComments(fsys.files[config_filename])
        doc == JsonFromStr(text)
    IN  IF ~doc.ok \/ ~FromValue(doc.v).ok
        THEN [res |-> Err(<<"Error in config file", config_filename>>), fs |-> fsys]
        ELSE [res |-> doc, fs |-> fsys]

\* A mutant of read_config_file: the "not found" branch for an override path
\* is missing, so a missing override file takes the first-run branch.
read_config_file_no_override_check(fsys, path_override, fault) ==
    LET config_filename == IF path_override.some THEN path_override.v ELSE ConfigPath
    IN  IF Exists(fsys, config_filename)
        THEN read_existing_config(fsys, config_filename)
        ELSE write_default_config(fsys, fault)

\* read_config_file(path_override): [res, fs], the document or the error, and
\* the filesystem it leaves.
read_config_file(fsys, path_override, fault) ==
    LET config_filename == IF path_override.some THEN path_override.v ELSE ConfigPath
    IN  IF Exists(fsys, config_filename)
        THEN read_existing_config(fsys, config_filename)
        ELSE IF path_override.some
        THEN [res |-> Err(<<"Config file not found", path_override.v>>), fs |-> fsys]
        ELSE write_default_config(fsys, fault)

-----------------------------------------------------------------------------
(* The environment reader.  env is None when RGA_CONFIG is unset, else
   Some(content). *)

\* read_config_env
read_config_env(envv) ==
    IF envv.some
    THEN LET doc == JsonFromStr(envv.v)
         IN  IF doc.ok THEN doc ELSE Err(<<"could not parse config from env RGA_CONFIG">>)
    ELSE Ok(ToValue(DefaultRgaConfig))

\* A mutant of read_config_env_cached: the cell is never consulted.
read_config_env_uncached(cel, envv) ==
    LET v == read_config_env(envv)
    IN  [res |-> v, cell |-> IF v.ok /\ ~cel.some THEN Some(v.v) ELSE cel, reads |-> 1]

\* read_config_env_cached: [res, cell, reads], the document or the error, the
\* OnceCell afterwards, and how often RGA_CONFIG was read.
read_config_env_cached(cel, envv) ==
    IF cel.some
    THEN [res |-> Ok(cel.v), cell |-> cel, reads |-> 0]
    ELSE LET v == read_config_env(envv)
         IN  [res |-> v, cell |-> IF v.ok THEN Some(v.v) ELSE cel, reads |-> 1]

-----------------------------------------------------------------------------
(* parse_args *)

\* A mutant of ReadsConfigFile: the lightweight mode takes the full branch.
ReadsConfigFileAlways(is_rga_preproc) == TRUE

\* `if is_rga_preproc { env and args } else { config file, env and args }`
ReadsConfigFile(is_rga_preproc) == ~is_rga_preproc

\* The serde(skip) fields parse_args copies from the CLI draft into the
\* result.
Readded == {"fzf_path", "list_adapters", "print_config_schema", "rg_help", "rg_version"}

\* "readd values with [serde(skip)]"
readd(res, arg_matches) ==
    [k \in DOMAIN res |-> IF k \in Readded THEN arg_matches[k] ELSE res[k]]

\* What a call of parse_args that clap ended looks like.
Exited(args, is_rga_preproc) ==
    [st |-> "done", preproc |-> is_rga_preproc, args |-> args, status |-> "exit",
     err |-> <<>>, cli |-> None, res |-> None, envSet |-> FALSE, fileCalled |-> FALSE,
     wrote |-> FALSE, fileDoc |-> None, envDoc |-> None, envReads |-> 0]

\* parse_args(args, is_rga_preproc) run on the filesystem fsys, the
\* environment envv and the cell cel: [out, fs, cell], where out records the
\* outcome (status "ok", "err" or "exit"), the CLI draft, whether
\* RGA_CONFIG was set at the call, whether read_config_file was called and whether it
\* changed the filesystem, the documents that entered the merge, and how
\* often RGA_CONFIG was read.
parse_args(args, is_rga_preproc, fsys, envv, cel, fault) ==
    LET arg_matches == ParseFrom(args)
    IN  IF ~arg_matches.ok
        THEN [out |-> Exited(args, is_rga_preproc), fs |-> fsys, cell |-> cel]
        ELSE
        LET args_config == ToValue(arg_matches.v)
            base == [Exited(args, is_rga_preproc) EXCEPT !.cli = Some(arg_matches.v),
                                                         !.envSet = envv.some]
            Failed(b, e) == [b EXCEPT !.status = "err", !.err = e]
            Finish(b, merged_config) ==
                LET r == FromValue(merged_config)
                IN  IF r.ok
                    THEN [b EXCEPT !.status = "ok",
                                   !.res = Some(readd(r.v, arg_matches.v))]
                    ELSE Failed(b, <<"Error parsing merged config">>)
        IN  IF ~ReadsConfigFile(is_rga_preproc)
            THEN LET e == read_config_env_cached(cel, envv)
                     b == [base EXCEPT !.envReads = e.reads]
                 IN  IF ~e.res.ok
                     THEN [out |-> Failed(b, e.res.err), fs |-> fsys, cell |-> e.cell]
                     ELSE [out |-> Finish([b EXCEPT !.envDoc = Some(e.res.v)],
                                          json_merge(e.res.v, args_config)),
                           fs |-> fsys, cell |-> e.cell]
            ELSE LET f == read_config_file(fsys, arg_matches.v.config_file_path, fault)
                     b == [base EXCEPT !.fileCalled = TRUE, !.wrote = (f.fs # fsys)]
                 IN  IF ~f.res.ok
                     THEN [out |-> Failed(b, f.res.err), fs |-> f.fs, cell |-> cel]
                     ELSE
                     LET e == read_config_env(envv)
                         b2 == [b EXCEPT !.fileDoc = Some(f.res.v), !.envReads = 1]
                     IN  IF ~e.ok
                         THEN [out |-> Failed(b2, e.err), fs |-> f.fs, cell |-> cel]
                         ELSE [out |-> Finish([b2 EXCEPT !.envDoc = Some(e.v)],
                                              json_merge(json_merge(f.res.v, e.v),
                                                         args_config)),
                               fs |-> f.fs, cell |-> cel]

-----------------------------------------------------------------------------
(* The resolver specification: one process calls parse_args, in either mode,
   on drawn argument vectors; RGA_CONFIG may change between calls. *)

\* Most parse_args calls of the process.
MaxCalls == 2

\* Most tool flags after the program name in a drawn argument vector.
MaxFlags == 1

Prog == <<"r", "g", "a">>

\* The flags argument vectors are drawn from, each at most once per vector.
ArgPool ==
    << Flag_max_archive_recursion \o <<"=", "7">>,
       Flag_max_archive_recursion \o <<"=", "5">>,
       Flag_cache_max_blob_len \o <<"=", "1", "0", "M">>,
       Flag_zip_extensions \o <<"=", "z", ",", "y">>,
       Flag_config_file \o <<"=">> \o OtherPath,
       Flag_fzf_path \o <<"=", "f">>,
       LongHelp >>

Increasing(f) == \A i, j \in DOMAIN f : i < j => f[i] < f[j]

DistinctFlags(v) ==
    \A i, j \in DOMAIN v : i # j => FlagName(v[i]) # FlagName(v[j])

FlagVectors ==
    {v \in {[i \in DOMAIN f |-> ArgPool[f[i]]] :
                f \in {g \in UNION {[1..n -> 1..Len(ArgPool)] : n \in 0..MaxFlags} :
                            Increasing(g)}} :
        DistinctFlags(v)}

ArgVectors == {<<Os(Prog)>> \o [i \in DOMAIN v |-> Os(v[i])] : v \in FlagVectors}

Adapter(name) == Str(name)

RichFileDoc ==
    Obj([k \in {"max_archive_recursion", "cache", "zip_extensions",
                "postproc_page_prefix", "custom_adapters"} |->
            CASE k = "max_archive_recursion" -> Num(3)
              [] k = "cache" -> Single("disabled", Bool(TRUE))
              [] k = "zip_extensions" -> StrList(<< <<"j">> >>)
              [] k = "postproc_page_prefix" -> Str(<<"P">>)
              [] k = "custom_adapters" -> Arr(<<Adapter(<<"a">>)>>)])

ConfigFileContents ==
    {Jsonc(RichFileDoc, TRUE),
     Jsonc(Single("accurate", Num(5)), FALSE),
     Garbage}

OtherFileContents == {Absent, Jsonc(Single("max_archive_recursion", Num(9)), FALSE)}

EnvDoc ==
    Obj([k \in {"max_archive_recursion", "cache", "zip_extensions", "custom_adapters"} |->
            CASE k = "max_archive_recursion" -> Num(4)
              [] k = "cache" -> Single("max_blob_len", Num(500))
              [] k = "zip_extensions" -> StrList(<< <<"e">> >>)
              [] k = "custom_adapters" -> Arr(<<Adapter(<<"b">>)>>)])

EnvValues ==
    {None,
     Some(Garbage),
     Some(Jsonc(EnvDoc, FALSE)),
     Some(Jsonc(Num(5), FALSE))}

\* No config directory yet, or a config directory holding the schema and a
\* config file.
InitialFilesystems ==
    {[dir |-> d.dir,
      files |-> [p \in FilePaths |->
                    CASE p = ConfigPath -> d.config
                      [] p = SchemaPath -> IF d.dir THEN SchemaText ELSE Absent
                      [] p = OtherPath -> d.other]] :
        d \in [dir : {FALSE}, config : {Absent}, other : OtherFileContents]
              \cup [dir : {TRUE}, config : ConfigFileContents, other : OtherFileContents]}

InitResolver ==
    /\ fs \in InitialFilesystems
    /\ env \in EnvValues
    /\ cell = None
    /\ alive = TRUE
    /\ calls = 0
    /\ last = Idle

Init == InitResolver /\ NoSplit /\ NoBlob /\ NoMerge /\ NoRace

\* The steps of the first-run branch can fail only when it is taken: the
\* config file is missing and the arguments name no override path.
FaultsFor(fsys, args) ==
    IF \/ Exists(fsys, ConfigPath)
       \/ \E i \in 2..Len(args) : FlagName(args[i].text) = Flag_config_file
    THEN {"none"}
    ELSE IoFaults

Call(args, is_rga_preproc, fault) ==
    \E r \in {parse_args(args, is_rga_preproc, fs, env, cell, fault)} :
        /\ alive
        /\ calls < MaxCalls
        /\ fs' = r.fs
        /\ cell' = r.cell
        /\ last' = r.out
        /\ alive' = (r.out.status # "exit")
        /\ calls' = calls + 1
        /\ UNCHANGED <<env, argv, split, blobIn, blobOut, docs, merged, procs>>

\* parse_args(args, false)
ParseArgsFull ==
    \E args \in ArgVectors : \E fault \in FaultsFor(fs, args) : Call(args, FALSE, fault)

\* parse_args(args, true)
ParseArgsPreproc == \E args \in ArgVectors : Call(args, TRUE, "none")

\* The process (or a test) changes RGA_CONFIG before a later call.
SetEnv ==
    /\ alive
    /\ calls < MaxCalls
    /\ \E v \in EnvValues : v # env /\ env' = v
    /\ UNCHANGED <<fs, cell, alive, calls, last, argv, split, blobIn, blobOut, docs, merged, procs>>

Next == ParseArgsFull \/ ParseArgsPreproc \/ SetEnv

Spec == Init /\ [][Next]_vars

-----------------------------------------------------------------------------
(* split_args *)

\* A mutant of IsToolOwned: an argument that is not valid Unicode is judged
\* by its lossy text instead of being passed through.
IsToolOwnedLossy(os_arg) ==
    \/ StartsWith(os_arg.text, RgaPrefix)
    \/ StartsWith(os_arg.text, RgPrefix)
    \/ os_arg.text = LongHelp
    \/ os_arg.text = ShortHelp
    \/ os_arg.text = LongVersion
    \/ os_arg.text = ShortVersion

\* The partition predicate for every argument but the first.
IsToolOwned(os_arg) ==
    IF os_arg.valid
    THEN \/ StartsWith(os_arg.text, RgaPrefix)
         \/ StartsWith(os_arg.text, RgPrefix)
         \/ os_arg.text = LongHelp
         \/ os_arg.text = ShortHelp
         \/ os_arg.text = LongVersion
         \/ os_arg.text = ShortVersion
    ELSE FALSE

\* Iterator::partition with the closure of split_args: firstarg is the
\* closure's captured flag.
RECURSIVE Partition(_, _, _, _, _)
Partition(args, i, firstarg, ours, theirs) ==
    IF i > Len(args) THEN [ours |-> ours, theirs |-> theirs]
    ELSE IF firstarg
    THEN Partition(args, i + 1, FALSE, Append(ours, args[i]), theirs)
    ELSE IF IsToolOwned(args[i])
    THEN Partition(args, i + 1, FALSE, Append(ours, args[i]), theirs)
    ELSE Partition(args, i + 1, FALSE, ours, Append(theirs, args[i]))

\* passthrough_args.insert(0, "--help") and insert(0, "--version")
Prepended(matches, passthrough_args) ==
    LET h == IF matches.rg_help THEN <<Os(LongHelp)>> \o passthrough_args
             ELSE passthrough_args
    IN  IF matches.rg_version THEN <<Os(LongVersion)>> \o h ELSE h

-----------------------------------------------------------------------------
(* The partition specification: the process starts with a drawn argument
   vector and calls split_args once. *)

\* Longest raw argument vector, program name included.
MaxArgv == 3

RawArgs ==
    {Os(Prog),
     Os(Flag_accurate),
     Os(Flag_rg_help),
     Os(Flag_rg_version),
     Os(<<"-", "-", "r", "g", "a">>),
     Os(<<"f", "o", "o">>),
     Os(ShortHelp),
     Os(ShortVersion \o <<"x">>),
     [valid |-> FALSE, text |-> Flag_accurate],
     [valid |-> FALSE, text |-> <<"f", "o", "o">>]}

InitSplit ==
    /\ fs \in {f \in InitialFilesystems :
                 f.files[ConfigPath] = Jsonc(RichFileDoc, TRUE) /\ f.files[OtherPath] = Absent}
    /\ env = None
    /\ cell = None
    /\ alive = TRUE
    /\ calls = 0
    /\ last = Idle
    /\ argv \in UNION {[1..n -> RawArgs] : n \in 1..MaxArgv}
    /\ split = Idle
    /\ NoBlob /\ NoMerge /\ NoRace

\* split_args(is_rga_preproc)
SplitArgs ==
    /\ split = Idle
    /\ \E is_rga_preproc \in BOOLEAN :
       \E part \in {Partition(argv, 1, TRUE, <<>>, <<>>)} :
       \E r \in {parse_args(part.ours, is_rga_preproc, fs, env, cell, "none")} :
          /\ fs' = r.fs
          /\ cell' = r.cell
          /\ last' = r.out
          /\ alive' = (r.out.status # "exit")
          /\ calls' = calls + 1
          /\ split' = [st |-> "done",
                       our_args |-> part.ours,
                       partitioned |-> part.theirs,
                       status |-> r.out.status,
                       passthrough_args |->
                           IF r.out.status = "ok"
                           THEN Prepended(r.out.res.v, part.theirs)
                           ELSE <<>>]
    /\ UNCHANGED <<env, argv, blobIn, blobOut, docs, merged, procs>>

NextSplit == SplitArgs

SpecSplit == InitSplit /\ [][NextSplit]_vars

\* The elements of s at the positions in S, in the order of s.
RECURSIVE Pick(_, _, _)
Pick(s, S, i) ==
    IF i > Len(s) THEN <<>>
    ELSE (IF i \in S THEN <<s[i]>> ELSE <<>>) \o Pick(s, S, i + 1)

HasPrefix(text, p) == Len(text) >= Len(p) /\ \A i \in 1..Len(p) : text[i] = p[i]

\* The positions the partition rule gives to the tool.
OwnedPositions ==
    {i \in 1..Len(argv) :
        \/ i = 1
        \/ /\ argv[i].valid
           /\ \/ HasPrefix(argv[i].text, RgaPrefix)
              \/ HasPrefix(argv[i].text, RgPrefix)
              \/ argv[i].text \in {LongHelp, ShortHelp, LongVersion, ShortVersion}}

\* C4: before any flag is prepended, split_args' two sequences are a stable
\* partition of the argument vector: the tool-owned sequence is the arguments
\* at the owned positions (the first, and each later one that is valid text
\* and starts with --rga- or --rg- or is --help, -h, --version or -V) in their
\* original order, and the pass-through sequence is all the others in their
\* original order.
C4_StablePartition ==
    split # Idle =>
        /\ split.our_args = Pick(argv, OwnedPositions, 1)
        /\ split.partitioned = Pick(argv, (1..Len(argv)) \ OwnedPositions, 1)

\* A vector with an invalid-text argument that looks like a tool flag between
\* two tool flags has been split.
C4_Witness ==
    /\ split # Idle
    /\ Len(argv) = 3
    /\ ~argv[2].valid /\ StartsWith(argv[2].text, RgaPrefix)
    /\ argv[3] = Os(Flag_rg_help)
    /\ split.our_args = <<argv[1], argv[3]>>
    /\ split.partitioned = <<argv[2]>>

-----------------------------------------------------------------------------
(* Properties of the resolver *)

Done == last # Idle
Resolved == Done /\ last.status = "ok"

\* The flags of the last call's argument vector.
FlagsGiven == {FlagName(last.args[i].text) : i \in 2..Len(last.args)}

\* C1: in full mode, every option eligible for the file and the environment
\* that a CLI flag sets has, in the resolved config, the value given on the
\* command line, whatever the config file and RGA_CONFIG say.
C1_CliOverrides ==
    (Resolved /\ ~last.preproc) =>
        LET res == last.res.v
            cli == last.cli.v
        IN  /\ Flag_accurate \in FlagsGiven => res.accurate = cli.accurate
            /\ Flag_adapters \in FlagsGiven => res.adapters = cli.adapters
            /\ Flag_no_cache \in FlagsGiven => res.cache.disabled = cli.cache.disabled
            /\ Flag_cache_max_blob_len \in FlagsGiven =>
                    res.cache.max_blob_len = cli.cache.max_blob_len
            /\ Flag_cache_compression_level \in FlagsGiven =>
                    res.cache.compression_level = cli.cache.compression_level
            /\ Flag_cache_path \in FlagsGiven => res.cache.path = cli.cache.path
            /\ Flag_max_archive_recursion \in FlagsGiven =>
                    res.max_archive_recursion = cli.max_archive_recursion
            /\ Flag_no_prefix_filenames \in FlagsGiven =>
                    res.no_prefix_filenames = cli.no_prefix_filenames
            /\ Flag_zip_extensions \in FlagsGiven => res.zip_extensions = cli.zip_extensions
            /\ Flag_ffmpeg_extensions \in FlagsGiven =>
                    res.ffmpeg_extensions = cli.ffmpeg_extensions
            /\ Flag_postproc_binary_marker \in FlagsGiven =>
                    res.postproc_binary_marker = cli.postproc_binary_marker
            /\ Flag_postproc_page_prefix \in FlagsGiven =>
                    res.postproc_page_prefix = cli.postproc_page_prefix
            /\ Flag_postproc_page_include_empty \in FlagsGiven =>
                    res.postproc_page_include_empty = cli.postproc_page_include_empty

\* The options a document can set.
Eligible == SkippedWhenDefault \cup AlwaysSerialized

\* C2: in full mode with RGA_CONFIG unset and no tool flag, every option the
\* config file sets keeps the file's value and every other option has its
\* compiled-in default.
C2_OnlyFileSets ==
    (Resolved /\ ~last.preproc /\ ~last.envSet /\ Len(last.args) = 1) =>
        LET file == last.fileDoc.v
            typed == FromValue(file).v
        IN  \A k \in Eligible :
                last.res.v[k] = IF Has(file, k) THEN typed[k] ELSE DefaultRgaConfig[k]

\* C3: after a successful resolution in either mode, every CLI-only field of
\* the resolved config equals that field of the CLI draft.
C3_CliOnlyFromDraft ==
    Resolved => \A k \in CliOnly : last.res.v[k] = last.cli.v[k]

\* What the environment document and the CLI draft alone resolve to.
ResolvedFromEnvAndCli(envDoc, cli) ==
    LET r == FromValue(json_merge(envDoc, ToValue(cli)))
    IN  IF r.ok THEN Some(readd(r.v, cli)) ELSE None

\* C6: a lightweight-mode call never calls the config-file reader and leaves
\* the filesystem as it was, also when --rga-config-file names a path; what it
\* resolves is what the environment document and the CLI draft alone give.
C6_LightweightNoFile ==
    [][(calls' = calls + 1 /\ last'.preproc) =>
          /\ fs' = fs
          /\ ~last'.fileCalled
          /\ ~last'.wrote
          /\ last'.fileDoc = None
          /\ last'.status = "ok" =>
                last'.res = ResolvedFromEnvAndCli(last'.envDoc.v, last'.cli.v)]_vars

\* A lightweight call given --rga-config-file for an existing file, beside a
\* config file that sets options, resolved to the defaults.
C6_Witness ==
    /\ Resolved /\ last.preproc
    /\ last.cli.v.config_file_path = Some(OtherPath)
    /\ Exists(fs, OtherPath)
    /\ fs.files[ConfigPath] = Jsonc(RichFileDoc, TRUE)
    /\ ~last.envSet
    /\ last.res.v.max_archive_recursion = DefaultMaxArchiveRecursion
    /\ last.res.v.custom_adapters = None

\* C7: a lightweight-mode call that reads the environment document with
\* success leaves it in the cell; once the cell holds a document it never
\* changes, and no later lightweight-mode call reads RGA_CONFIG: each merges
\* the memoized document.
C7_EnvMemoized ==
    [][/\ (calls' = calls + 1 /\ last'.preproc /\ last'.envDoc.some) =>
                cell' = last'.envDoc
       /\ cell.some =>
             /\ cell' = cell
             /\ (calls' = calls + 1 /\ last'.preproc) =>
                   /\ last'.envReads = 0
                   /\ last'.status # "exit" => last'.envDoc = cell]_vars

\* The second lightweight call ran after RGA_CONFIG had been set and still
\* merged the defaults memoized while it was unset.
C7_Witness ==
    /\ Resolved /\ last.preproc /\ calls = 2
    /\ last.envReads = 0
    /\ last.envSet
    /\ cell = Some(ToValue(DefaultRgaConfig))
    /\ last.envDoc = cell
    /\ last.res.v.max_archive_recursion = DefaultMaxArchiveRecursion

AdaptersOf(doc) ==
    IF Has(doc, "custom_adapters") /\ doc.o["custom_adapters"].t = "arr"
    THEN Some(doc.o["custom_adapters"].a)
    ELSE None

WellFormed(content) == content.kind = "jsonc" /\ FromValue(content.doc).ok

\* C10: read_config_file changes the filesystem only when the config file is
\* missing and no override path was given; an existing file is read, nothing
\* is written and its parsed document is returned; a missing override file
\* gives "Config file not found" with the path and nothing is created; no file
\* ever disappears, so after a successful first run later runs write nothing.
C10_WritesOnlyOnFirstRun ==
    [][/\ \A p \in FilePaths : fs.files[p] # Absent => fs'.files[p] # Absent
       /\ (calls' = calls + 1 /\ last'.fileCalled) =>
            LET override == last'.cli.v.config_file_path
                path == IF override.some THEN override.v ELSE ConfigPath
                existed == Exists(fs, path)
            IN  /\ fs' # fs => ~existed /\ ~override.some
                /\ existed =>
                      /\ fs' = fs
                      /\ WellFormed(fs.files[path]) =>
                            last'.fileDoc = Some(fs.files[path].doc)
                /\ (~existed /\ override.some) =>
                      /\ fs' = fs
                      /\ last'.status = "err"
                      /\ last'.err = <<"Config file not found", override.v>>]_vars

\* A full-mode call without override found the template a first run of this
\* process had written, read it and wrote nothing.
C10_Witness ==
    /\ Resolved /\ calls = 2
    /\ last.fileCalled /\ ~last.wrote
    /\ last.cli.v.config_file_path = None
    /\ fs.files[ConfigPath] = DefaultConfigTemplate
    /\ fs.files[SchemaPath] = SchemaText
    /\ last.fileDoc = Some(EmptyObj)

-----------------------------------------------------------------------------
(* The deep merge, value by value *)

\* r is the deep merge of a and b: for two objects, r holds exactly the keys
\* of both, a's value at a key only a holds, b's value at a key only b holds,
\* and the deep merge of the two values at a shared key; otherwise r is b.
RECURSIVE IsDeepMerge(_, _, _)
IsDeepMerge(a, b, r) ==
    IF IsObj(a) /\ IsObj(b)
    THEN /\ IsObj(r)
         /\ Keys(r) = Keys(a) \cup Keys(b)
         /\ \A k \in Keys(a) \ Keys(b) : r.o[k] = a.o[k]
         /\ \A k \in Keys(b) \ Keys(a) : r.o[k] = b.o[k]
         /\ \A k \in Keys(a) \cap Keys(b) : IsDeepMerge(a.o[k], b.o[k], r.o[k])
    ELSE r = b

\* C12: json_merge(a, b) leaves in a the deep merge of a and b (objects merge
\* key by key, recursively at shared keys; in every other case the result
\* is exactly b), and the second document is never modified.
C12_DeepMerge ==
    /\ [](merged.ab.some => IsDeepMerge(docs.A, docs.B, merged.ab.v))
    /\ [][docs' = docs]_vars

\* Two objects that share a key holding objects with different keys have
\* been merged: the nested result holds the keys of both.
C12_Witness ==
    /\ merged.ab.some
    /\ Has(docs.A, "x") /\ Has(docs.B, "x")
    /\ IsObj(docs.A.o["x"]) /\ IsObj(docs.B.o["x"])
    /\ Keys(docs.A.o["x"]) = {"p"}
    /\ Keys(docs.B.o["x"]) = {"q"}
    /\ Keys(merged.ab.v.o["x"]) = {"p", "q"}
    /\ merged.ab.v.o["x"].o["p"] = docs.A.o["x"].o["p"]

-----------------------------------------------------------------------------
(* Concurrent first runs: NumProcs processes call read_config_file(None) on
   one filesystem that holds no config directory yet.  A call is a sequence
   of system calls; the calls of different processes interleave.  No system
   call fails. *)

\* Number of processes that call read_config_file concurrently.
NumProcs == 3

Procs == 1..NumProcs

\* A process about to execute the step pc of read_config_file.
At(pc) == [pc |-> pc, res |-> None]

\* A process whose read_config_file has returned r.
Returned(r) == [pc |-> "done", res |-> Some(r)]

InitRace ==
    /\ fs \in {f \in InitialFilesystems : ~f.dir /\ f.files[OtherPath] = Absent}
    /\ env = None
    /\ cell = None
    /\ alive = TRUE
    /\ calls = 0
    /\ last = Idle
    /\ NoSplit /\ NoBlob /\ NoMerge
    /\ procs = [p \in Procs |-> At("exists")]

\* if config_filename.exists()
CheckExists(p) ==
    /\ procs[p].pc = "exists"
    /\ procs' = [procs EXCEPT
                    ![p] = At(IF Exists(fs, ConfigPath) THEN "read" ELSE "mkdir")]
    /\ UNCHANGED <<fs, env, cell, alive, calls, last, argv, split, blobIn, blobOut, docs, merged>>

\* read_to_string, StripComments and the two serde_json::from_str calls of
\* the existing-file branch; only read_to_string looks at the filesystem.
ReadExisting(p) ==
    /\ procs[p].pc = "read"
    /\ procs' = [procs EXCEPT ![p] = Returned(read_existing_config(fs, ConfigPath).res)]
    /\ UNCHANGED <<fs, env, cell, alive, calls, last, argv, split, blobIn, blobOut, docs, merged>>

\* std::fs::create_dir_all(config_dir)
CreateDir(p) ==
    /\ procs[p].pc = "mkdir"
    /\ fs' = [fs EXCEPT !.dir = TRUE]
    /\ procs' = [procs EXCEPT ![p] = At("create_schema")]
    /\ UNCHANGED <<env, cell, alive, calls, last, argv, split, blobIn, blobOut, docs, merged>>

\* File::create(config_dir.join("config.v1.schema.json")): creates or
\* truncates.
CreateSchema(p) ==
    /\ procs[p].pc = "create_schema"
    /\ fs' = [fs EXCEPT !.files[SchemaPath] = EmptyFile]
    /\ procs' = [procs EXCEPT ![p] = At("write_schema")]
    /\ UNCHANGED <<env, cell, alive, calls, last, argv, split, blobIn, blobOut, docs, merged>>

\* schemafile.write_all(..)
WriteSchema(p) ==
    /\ procs[p].pc = "write_schema"
    /\ fs' = [fs EXCEPT !.files[SchemaPath] = SchemaText]
    /\ procs' = [procs EXCEPT ![p] = At("create_config")]
    /\ UNCHANGED <<env, cell, alive, calls, last, argv, split, blobIn, blobOut, docs, merged>>

\* File::create(config_filename): creates or truncates.
CreateConfig(p) ==
    /\ procs[p].pc = "create_config"
    /\ fs' = [fs EXCEPT !.files[ConfigPath] = EmptyFile]
    /\ procs' = [procs EXCEPT ![p] = At("write_config")]
    /\ UNCHANGED <<env, cell, alive, calls, last, argv, split, blobIn, blobOut, docs, merged>>

\* configfile.write_all(..) and Ok((config_filename_str, Object(default)))
WriteConfig(p) ==
    /\ procs[p].pc = "write_config"
    /\ fs' = [fs EXCEPT !.files[ConfigPath] = DefaultConfigTemplate]
    /\ procs' = [procs EXCEPT ![p] = Returned(Ok(EmptyObj))]
    /\ UNCHANGED <<env, cell, alive, calls, last, argv, split, blobIn, blobOut, docs, merged>>

NextRace ==
    \E p \in Procs :
        \/ CheckExists(p)
        \/ ReadExisting(p)
        \/ CreateDir(p)
        \/ CreateSchema(p)
        \/ WriteSchema(p)
        \/ CreateConfig(p)
        \/ WriteConfig(p)

SpecRace == InitRace /\ [][NextRace]_vars

AllReturned == \A p \in Procs : procs[p].pc = "done"

\* C11: in every interleaving of concurrent first runs, every process that
\* has finished its config-file read got the empty document without error,
\* and once all have finished the config file holds the complete template
\* and the schema file the complete schema.
C11_RaceTolerated ==
    /\ \A p \in Procs : procs[p].pc = "done" => procs[p].res = Some(Ok(EmptyObj))
    /\ AllReturned =>
          /\ fs.files[ConfigPath] = DefaultConfigTemplate
          /\ fs.files[SchemaPath] = SchemaText

====
